---- MODULE Spec2Model ----
(***************************************************************************)
(* AdGuard external-dns sidecar (src/main.go, the version with the health  *)
(* responder, lines 196-466).                                              *)
(*                                                                         *)
(* The main goroutine loads the configuration, starts the health responder *)
(* goroutine, runs one cycle (enforceRulePosition) at once and then one    *)
(* cycle per ticker tick.  A cycle is a fetch of the remote rule list, a   *)
(* local decision and, when the target rule is not last, a full-replace    *)
(* write.  The remote list lives in AdGuard Home and is also written by    *)
(* another writer (external-dns).  The health responder answers /healthz   *)
(* from the two package-level flags healthy and lastCheckOK, and /readyz   *)
(* unconditionally.                                                        *)
(*                                                                         *)
(* Atomicity: one step per network call (the remote list is read or        *)
(* replaced at one instant, and everything the goroutine does locally      *)
(* up to its next network call or shared store belongs to the same step),  *)
(* one step per store to a shared flag, one step per probe answered.       *)
(*                                                                         *)
(* healthy and lastCheckOK are plain package variables, read by the        *)
(* handlers and written by main and by startHealthServer with no           *)
(* synchronisation.  Each access is the load or store of one bool, so a    *)
(* read that races with a store yields the value before it or the value    *)
(* after it: both outcomes are behaviours here, the probe step taken       *)
(* before or after the storing step.                                       *)
(***************************************************************************)
EXTENDS Integers, Sequences, FiniteSets, TLC

\* ------------------------------------------------------------------ bounds
\* longest remote list the other writer installs
MaxRemote == 2
\* longest list the pure decision is applied to
MaxLen == 3

\* ------------------------------------------------------- program constants
StatusOK == 200
StatusServiceUnavailable == 503

\* ------------------------------------------------------------- the values
\* the configured target rule of the running system, and the other rules
Target == "t"
Rules == {"r1", "r2", "t"}

RECURSIVE SeqsUpTo(_, _)
SeqsUpTo(S, n) ==
    IF n = 0 THEN {<<>>}
    ELSE LET shorter == SeqsUpTo(S, n - 1)
         IN  shorter \cup {Append(s, x) : s \in {q \in shorter : Len(q) = n - 1}, x \in S}

\* A Go []string: nil and the empty non-nil slice are different values of the
\* same length 0.
NilSlice == [isNil |-> TRUE, elems |-> <<>>]
Slice(s) == [isNil |-> FALSE, elems |-> s]
len(x) == Len(x.elems)
append(x, v) == [isNil |-> FALSE, elems |-> Append(x.elems, v)]
SlicesUpTo(n) == {NilSlice} \cup {Slice(s) : s \in SeqsUpTo(Rules, n)}

\* --------------------------------------------------- the position reconciler
\* (mutant) the target is looked for anywhere in the list
isRuleAnywhere(rules, targetRule) ==
    \E i \in 1..len(rules) : rules.elems[i] = targetRule

\* (mutant) the first element is compared instead of the last
isRuleAtTop(rules, targetRule) ==
    IF len(rules) = 0 THEN FALSE
    ELSE rules.elems[1] = targetRule

isRuleAtBottom(rules, targetRule) ==
    IF len(rules) = 0 THEN FALSE
    ELSE rules.elems[len(rules)] = targetRule

\* the loop of removeRule: result starts nil and grows by append
RECURSIVE removeRuleLoop(_, _, _, _)
removeRuleLoop(rules, targetRule, i, result) ==
    IF i > len(rules) THEN result
    ELSE removeRuleLoop(rules, targetRule, i + 1,
             IF rules.elems[i] # targetRule THEN append(result, rules.elems[i])
             ELSE result)

\* (mutant) the loop stops removing after the first occurrence
RECURSIVE removeFirstLoop(_, _, _, _, _)
removeFirstLoop(rules, targetRule, i, result, found) ==
    IF i > len(rules) THEN result
    ELSE IF rules.elems[i] = targetRule /\ ~found
         THEN removeFirstLoop(rules, targetRule, i + 1, result, TRUE)
         ELSE removeFirstLoop(rules, targetRule, i + 1, append(result, rules.elems[i]), found)

removeFirstOnly(rules, targetRule) == removeFirstLoop(rules, targetRule, 1, NilSlice, FALSE)

removeRule(rules, targetRule) == removeRuleLoop(rules, targetRule, 1, NilSlice)

\* (mutant) the target is put in front of the remaining rules
updatedRulesPrepend(rules, targetRule) ==
    [isNil |-> FALSE, elems |-> <<targetRule>> \o removeRule(rules, targetRule).elems]

\* the list enforceRulePosition hands to updateUserRules
updatedRulesOf(rules, targetRule) == append(removeRule(rules, targetRule), targetRule)

NoOp == [kind |-> "NoOp", newList |-> NilSlice]
Reorder(l) == [kind |-> "Reorder", newList |-> l]

\* (mutant) the target is removed and not appended again
decideNoAppend(rules, targetRule) ==
    IF isRuleAtBottom(rules, targetRule) THEN NoOp
    ELSE Reorder(removeRule(rules, targetRule))

\* the decision inside enforceRulePosition
decide(rules, targetRule) ==
    IF isRuleAtBottom(rules, targetRule) THEN NoOp
    ELSE Reorder(updatedRulesOf(rules, targetRule))


\* ---------------------------------------------------------------- the state
VARIABLES
    healthCheck,  \* the -health flag (*healthCheck after flag.Parse)
    clientProbes, \* history: requests the health check client has made
    clientGot,    \* history: what http.Get brought the health check client
    logs,         \* the lines the step just taken wrote to the log
    logsAlt,      \* the lines it writes in the run with the other credentials
    env,          \* the process environment (os.Getenv)
    config,       \* main's Config, the zero Config before loadConfig returns
    pc,           \* where the main goroutine is
    exitCode,     \* the process's exit code, -1 while it runs
    tickPending,  \* a tick is buffered in ticker.C
    rules,        \* enforceRulePosition's rules, while it is between fetch and write
    updatedRules, \* enforceRulePosition's updatedRules
    err,          \* what enforceRulePosition returned (TRUE: an error)
    remote,       \* the user rules AdGuard Home holds
    healthy,      \* package variable healthy
    lastCheckOK,  \* package variable lastCheckOK
    srv,          \* where the health responder goroutine is
    conn,         \* a client connection to the responder is open
    resp,         \* the answer the step just taken wrote, if it answered a probe
    lastOutcome,  \* history: outcome of the cycle that finished last
    extSince,     \* history: another writer changed remote since the sidecar last read or wrote it
    cleanFetch,   \* history: this cycle's fetch followed a successful cycle with no change in between
    fetches,      \* history: fetch attempts of the current (or last) cycle
    writes,       \* history: write attempts of the current (or last) cycle
    L,            \* input of the pure decision: the list
    T,            \* input of the pure decision: the target
    action,       \* decide(L, T), once computed
    second,       \* decide applied to the list of a Reorder, once computed
    arg,          \* input of a function that is checked on its own
    res,          \* its result, once applied is TRUE
    applied       \* the function has been applied to arg

modeVars == <<healthCheck, clientProbes, clientGot>>
logVars == <<logs, logsAlt>>
sysVars == <<modeVars, logVars, env, config, pc, exitCode, tickPending, rules, updatedRules, err, remote,
             healthy, lastCheckOK, srv, conn, resp,
             lastOutcome, extSince, cleanFetch, fetches, writes>>
pureVars == <<L, T, action, second, arg, res, applied>>
vars == <<sysVars, pureVars>>

NoResp == [path |-> "", status |-> 0]
NoDecision == [kind |-> "none", newList |-> NilSlice]
ZeroConfig == [AdGuardURL |-> "", AdGuardUser |-> "", AdGuardPass |-> "", TargetRule |-> "",
               HealthPort |-> ""]

\* The environment of a run of the sidecar: each required variable set or not.
\* HEALTH_PORT is left unset in these runs (the default port is used).
Envs == [ADGUARD_URL : {"", "http://adguard"}, ADGUARD_USER : {"", "admin"},
         ADGUARD_PASS : {"", "secret"}, TARGET_RULE : {"", Target}, HEALTH_PORT : {""}]

\* The environment of a run of the health check client
HealthEnvs == [ADGUARD_URL : {"", "http://adguard"}, ADGUARD_USER : {"", "admin"},
               ADGUARD_PASS : {"", "secret"}, TARGET_RULE : {"", Target},
               HEALTH_PORT : {"", "9090"}]

NoProbe == [err |-> FALSE, status |-> 0, port |-> ""]

RemoteLists == SeqsUpTo(Rules, MaxRemote)

Range(s) == {s[i] : i \in 1..Len(s)}

\* ------------------------------------------------------------------ the log
\* A log line is its format string followed by its arguments, as strings.
\* The run with the other credentials is the run whose environment differs in
\* the values of the username and of the password only; it is given the same
\* responses, so it takes the same steps.
otherCredentials(e) ==
    [e EXCEPT !.ADGUARD_USER = IF @ = "" THEN "" ELSE "root",
              !.ADGUARD_PASS = IF @ = "" THEN "" ELSE "hunter2"]

noLog == logs' = <<>> /\ logsAlt' = <<>>

\* the Config loadConfig returns for an environment with nothing missing
configOf(e) ==
    [AdGuardURL |-> e.ADGUARD_URL, AdGuardUser |-> e.ADGUARD_USER,
     AdGuardPass |-> e.ADGUARD_PASS, TargetRule |-> e.TARGET_RULE,
     HealthPort |-> IF e.HEALTH_PORT = "" THEN "8080" ELSE e.HEALTH_PORT]

\* the configuration of the run with the other credentials
configAlt == configOf(otherCredentials(env))

logStarting == <<"Starting AdGuard External-DNS Sidecar...">>

\* (mutant) the startup line also prints the password
logConfigurationLoadedPass(c) ==
    <<"Configuration loaded: URL=%s, Target Rule=%s, Check Interval=%v",
      c.AdGuardURL, c.TargetRule, "1m0s", c.AdGuardPass>>

logConfigurationLoaded(c) ==
    <<"Configuration loaded: URL=%s, Target Rule=%s, Check Interval=%v",
      c.AdGuardURL, c.TargetRule, "1m0s">>

logNotSet(key) == <<"Required environment variable %s is not set", key>>

logFetched(fetched) == <<"Fetched %d user rules from AdGuard", ToString(len(fetched))>>

logAlreadyAtBottom == <<"Target rule is already at the bottom. No action needed.">>

logMoving(updated) ==
    <<"Moving target rule to bottom position (rule %d of %d)",
      ToString(len(updated)), ToString(len(updated))>>

logSuccess == <<"Successfully updated user rules in AdGuard">>

logListening(port) == <<"Health server listening on port %s", port>>

logServerError == <<"Health server error: %v", "listen error">>

\* The text of the error of a request: a transport error names the method and
\* the URL, a status error the status and the body of the response.
errorText(c, method, path, r, bodyText) ==
    IF r.err THEN <<"%s %q: %v", method, c.AdGuardURL, path, "transport error">>
    ELSE IF r.status # StatusOK
    THEN <<"unexpected status code %d: %s", ToString(r.status), bodyText>>
    ELSE <<"decode error">>

\* main's line for a failed cycle, around the error enforceRulePosition returns
logCycleError(first, wrap, text) ==
    <<IF first THEN "Error on initial check: %v" ELSE "Error enforcing rule position: %v",
      wrap>> \o text

\* (mutant) TARGET_RULE is read with os.Getenv, not with getEnvOrFatal
MissingButTarget(e) ==
    \/ e.ADGUARD_URL = ""
    \/ e.ADGUARD_USER = ""
    \/ e.ADGUARD_PASS = ""

\* ---------------------------------------------------------------- startup
\* getEnvOrFatal: the value, or a fatal exit when it is empty
Missing(e) ==
    \/ e.ADGUARD_URL = ""
    \/ e.ADGUARD_USER = ""
    \/ e.ADGUARD_PASS = ""
    \/ e.TARGET_RULE = ""

\* HEALTH_PORT, with its default
healthPort(e) == IF e.HEALTH_PORT = "" THEN "8080" ELSE e.HEALTH_PORT

\* What http.Get("http://localhost:<port>/healthz") may bring the health check
\* client: no answer (nothing listens, or a timeout), or an answer with a status.
ProbeResponses(port) ==
    {[err |-> TRUE, status |-> 0, port |-> port]}
    \cup {[err |-> FALSE, status |-> st, port |-> port] :
            st \in {StatusOK, StatusServiceUnavailable, 404}}

\* (mutant) the status of the answer is not looked at
healthCheckClientAnyStatus ==
    /\ pc = "main"
    /\ healthCheck
    /\ \E r \in ProbeResponses(healthPort(env)) :
         /\ clientGot' = r
         /\ exitCode' = IF r.err THEN 1 ELSE 0
    /\ clientProbes' = clientProbes + 1
    /\ pc' = "exited"
    /\ resp' = NoResp
    /\ noLog
    /\ UNCHANGED <<healthCheck, env, config, tickPending, rules, updatedRules, err, remote,
                   healthy, lastCheckOK, srv, conn, lastOutcome, extSince, cleanFetch,
                   fetches, writes, pureVars>>

\* main with -health: one GET of /healthz on localhost, then os.Exit
healthCheckClient ==
    /\ pc = "main"
    /\ healthCheck
    /\ \E r \in ProbeResponses(healthPort(env)) :
         /\ clientGot' = r
         /\ exitCode' = IF r.err THEN 1
                        ELSE IF r.status # StatusOK THEN 1
                        ELSE 0
    /\ clientProbes' = clientProbes + 1
    /\ pc' = "exited"
    /\ resp' = NoResp
    /\ noLog
    /\ UNCHANGED <<healthCheck, env, config, tickPending, rules, updatedRules, err, remote,
                   healthy, lastCheckOK, srv, conn, lastOutcome, extSince, cleanFetch,
                   fetches, writes, pureVars>>

\* getEnvOrFatal's calls in their order: the first variable found empty
firstMissing(e) ==
    IF e.ADGUARD_URL = "" THEN "ADGUARD_URL"
    ELSE IF e.ADGUARD_USER = "" THEN "ADGUARD_USER"
    ELSE IF e.ADGUARD_PASS = "" THEN "ADGUARD_PASS"
    ELSE "TARGET_RULE"

\* the lines of main up to the start of the responder
loadConfigLog(e) ==
    IF Missing(e)
    THEN <<logStarting, logNotSet(firstMissing(e))>>
    ELSE <<logStarting, logConfigurationLoaded(configOf(e))>>

\* loadConfig, as main calls it: log.Fatalf exits the process with status 1
loadConfig ==
    /\ pc = "main"
    /\ ~healthCheck
    /\ IF Missing(env)
       THEN /\ pc' = "exited"
            /\ exitCode' = 1
            /\ config' = config
       ELSE /\ pc' = "startHealth"
            /\ exitCode' = exitCode
            /\ config' = configOf(env)
    /\ resp' = NoResp
    /\ logs' = loadConfigLog(env)
    /\ logsAlt' = loadConfigLog(otherCredentials(env))
    /\ UNCHANGED <<modeVars, env, tickPending, rules, updatedRules, err, remote, healthy, lastCheckOK,
                   srv, conn, lastOutcome, extSince, cleanFetch, fetches, writes, pureVars>>

\* go startHealthServer(...); time.NewTicker(...); then the startup cycle begins
goStartHealthServer ==
    /\ pc = "startHealth"
    /\ srv' = "starting"
    /\ pc' = "fetch"
    /\ resp' = NoResp
    /\ noLog
    /\ UNCHANGED <<modeVars, env, config, exitCode, tickPending, rules, updatedRules, err, remote,
                   healthy, lastCheckOK, conn, lastOutcome, extSince, cleanFetch,
                   fetches, writes, pureVars>>

\* ------------------------------------------------------ the remote list client
\* The body of a response, by what json.NewDecoder(resp.Body).Decode(&status)
\* makes of it:
\*   "invalid"    not JSON (empty, truncated, HTML)            -> error
\*   "wrongType"  JSON whose user_rules is not a list of strings,
\*                or that is a list, a string or a number       -> error
\*   "null"       the JSON value null                          -> no error, nothing set
\*   "noField"    a JSON object without user_rules             -> no error, nothing set
\*   "rulesNull"  {"user_rules": null}                         -> no error, nil
\*   "rules"      {"user_rules": [...]}                        -> no error, the list
Body(kind, list) == [kind |-> kind, list |-> list]

BodyKinds == {"invalid", "wrongType", "null", "noField", "rulesNull", "rules"}

\* Decode into a zero FilteringStatus: the error, and status.UserRules after it
decodeFilteringStatus(body) ==
    IF body.kind \in {"invalid", "wrongType"} THEN [err |-> TRUE, UserRules |-> NilSlice]
    ELSE IF body.kind = "rules" THEN [err |-> FALSE, UserRules |-> Slice(body.list)]
    ELSE [err |-> FALSE, UserRules |-> NilSlice]

\* What the GET /control/filtering/status may bring back while AdGuard Home
\* holds `list`: a transport error, a non-200 status, a 200 with a body that is
\* cut short, or a 200 with the list (an empty list travels as [] or as null).
FetchResponses(list) ==
    {[err |-> TRUE, status |-> 0, body |-> Body("invalid", <<>>)],
     [err |-> FALSE, status |-> 500, body |-> Body("invalid", <<>>)],
     [err |-> FALSE, status |-> StatusOK, body |-> Body("invalid", <<>>)],
     [err |-> FALSE, status |-> StatusOK, body |-> Body("rules", list)]}
    \cup (IF list = <<>>
          THEN {[err |-> FALSE, status |-> StatusOK, body |-> Body("rulesNull", <<>>)]}
          ELSE {})

\* fetchUserRules, from the response of client.Do on
fetchUserRules(r) ==
    IF r.err THEN [rules |-> NilSlice, err |-> TRUE]
    ELSE IF r.status # StatusOK THEN [rules |-> NilSlice, err |-> TRUE]
    ELSE IF decodeFilteringStatus(r.body).err THEN [rules |-> NilSlice, err |-> TRUE]
    ELSE [rules |-> decodeFilteringStatus(r.body).UserRules, err |-> FALSE]

\* What the POST /control/filtering/set_rules may bring back: the server applies
\* the request and answers 200, rejects it with another status, or the transport
\* fails, before the request arrived or after the server applied it.
WriteResponses ==
    {[err |-> FALSE, status |-> StatusOK, applied |-> TRUE],
     [err |-> FALSE, status |-> 415, applied |-> FALSE],
     [err |-> TRUE, status |-> 0, applied |-> FALSE],
     [err |-> TRUE, status |-> 0, applied |-> TRUE]}

\* updateUserRules, from the response of client.Do on: TRUE is an error
updateUserRules(r) ==
    IF r.err THEN TRUE
    ELSE r.status # StatusOK

\* ------------------------------------------------------------------ a cycle
\* the lines of a cycle up to the return of fetchUserRules and the decision
enforceFetchLog(c, r, first) ==
    IF fetchUserRules(r).err
    THEN <<logCycleError(first, "failed to fetch rules: %w",
                         errorText(c, "Get", "/control/filtering/status", r, r.body.kind))>>
    ELSE IF decide(fetchUserRules(r).rules, c.TargetRule).kind = "NoOp"
    THEN <<logFetched(fetchUserRules(r).rules), logAlreadyAtBottom>>
    ELSE <<logFetched(fetchUserRules(r).rules),
           logMoving(decide(fetchUserRules(r).rules, c.TargetRule).newList)>>

\* the lines of a cycle after the return of updateUserRules
enforceWriteLog(c, r, first) ==
    IF updateUserRules(r)
    THEN <<logCycleError(first, "failed to update rules: %w",
                         errorText(c, "Post", "/control/filtering/set_rules", r, "body"))>>
    ELSE <<logSuccess>>

\* (mutant) the cycle is marked as succeeded as soon as its fetch succeeded
enforceFetchOptimistic ==
    /\ pc = "fetch"
    /\ \E r \in FetchResponses(remote) :
         LET got == fetchUserRules(r)
         IN  /\ logs' = enforceFetchLog(config, r, lastOutcome = "none")
             /\ logsAlt' = enforceFetchLog(configAlt, r, lastOutcome = "none")
             /\ fetches' = fetches + 1
             /\ extSince' = IF got.err THEN extSince ELSE FALSE
             /\ cleanFetch' = (~got.err /\ lastOutcome = "ok" /\ ~extSince)
             /\ IF got.err
                THEN /\ err' = TRUE
                     /\ pc' = "update"
                     /\ UNCHANGED <<rules, updatedRules>>
                ELSE IF decide(got.rules, config.TargetRule).kind = "NoOp"
                THEN /\ err' = FALSE
                     /\ pc' = "update"
                     /\ UNCHANGED <<rules, updatedRules>>
                ELSE /\ rules' = got.rules
                     /\ updatedRules' = decide(got.rules, config.TargetRule).newList
                     /\ pc' = "write"
                     /\ err' = err
    /\ lastCheckOK' = IF pc' = "write" THEN TRUE ELSE lastCheckOK
    /\ resp' = NoResp
    /\ UNCHANGED <<modeVars, env, config, exitCode, tickPending, remote, healthy,
                   srv, conn, lastOutcome, writes, pureVars>>

\* enforceRulePosition up to its return or to its call of updateUserRules
enforceFetch ==
    /\ pc = "fetch"
    /\ \E r \in FetchResponses(remote) :
         LET got == fetchUserRules(r)
         IN  /\ logs' = enforceFetchLog(config, r, lastOutcome = "none")
             /\ logsAlt' = enforceFetchLog(configAlt, r, lastOutcome = "none")
             /\ fetches' = fetches + 1
             /\ extSince' = IF got.err THEN extSince ELSE FALSE
             /\ cleanFetch' = (~got.err /\ lastOutcome = "ok" /\ ~extSince)
             /\ IF got.err
                THEN /\ err' = TRUE
                     /\ pc' = "update"
                     /\ UNCHANGED <<rules, updatedRules>>
                ELSE IF decide(got.rules, config.TargetRule).kind = "NoOp"
                THEN /\ err' = FALSE
                     /\ pc' = "update"
                     /\ UNCHANGED <<rules, updatedRules>>
                ELSE /\ rules' = got.rules
                     /\ updatedRules' = decide(got.rules, config.TargetRule).newList
                     /\ pc' = "write"
                     /\ err' = err
    /\ resp' = NoResp
    /\ UNCHANGED <<modeVars, env, config, exitCode, tickPending, remote, healthy, lastCheckOK,
                   srv, conn, lastOutcome, writes, pureVars>>

\* (mutant) a failed write is tried again
enforceWriteRetry ==
    /\ pc = "write"
    /\ \E r \in WriteResponses :
         /\ remote' = IF r.applied THEN updatedRules.elems ELSE remote
         /\ extSince' = IF r.applied THEN FALSE ELSE extSince
         /\ err' = updateUserRules(r)
         /\ logs' = enforceWriteLog(config, r, lastOutcome = "none")
         /\ logsAlt' = enforceWriteLog(configAlt, r, lastOutcome = "none")
         /\ pc' = IF updateUserRules(r) THEN "write" ELSE "update"
         /\ rules' = IF updateUserRules(r) THEN rules ELSE NilSlice
         /\ updatedRules' = IF updateUserRules(r) THEN updatedRules ELSE NilSlice
    /\ writes' = writes + 1
    /\ resp' = NoResp
    /\ UNCHANGED <<modeVars, env, config, exitCode, tickPending, healthy, lastCheckOK,
                   srv, conn, lastOutcome, cleanFetch, fetches, pureVars>>

\* (mutant) the request is not sent and the write reports success
enforceWriteNotSent ==
    /\ pc = "write"
    /\ err' = FALSE
    /\ logs' = <<logSuccess>>
    /\ logsAlt' = <<logSuccess>>
    /\ writes' = writes + 1
    /\ pc' = "update"
    /\ rules' = NilSlice
    /\ updatedRules' = NilSlice
    /\ resp' = NoResp
    /\ UNCHANGED <<modeVars, env, config, exitCode, tickPending, healthy, lastCheckOK, remote, extSince,
                   srv, conn, lastOutcome, cleanFetch, fetches, pureVars>>

\* updateUserRules(config, updatedRules) and the return of enforceRulePosition
enforceWrite ==
    /\ pc = "write"
    /\ \E r \in WriteResponses :
         /\ remote' = IF r.applied THEN updatedRules.elems ELSE remote
         /\ extSince' = IF r.applied THEN FALSE ELSE extSince
         /\ err' = updateUserRules(r)
         /\ logs' = enforceWriteLog(config, r, lastOutcome = "none")
         /\ logsAlt' = enforceWriteLog(configAlt, r, lastOutcome = "none")
    /\ writes' = writes + 1
    /\ pc' = "update"
    /\ rules' = NilSlice
    /\ updatedRules' = NilSlice
    /\ resp' = NoResp
    /\ UNCHANGED <<modeVars, env, config, exitCode, tickPending, healthy, lastCheckOK,
                   srv, conn, lastOutcome, cleanFetch, fetches, pureVars>>

\* (mutant) the error is fatal: the process exits instead of going on
updateHealthFatal ==
    /\ pc = "update"
    /\ lastCheckOK' = ~err
    /\ lastOutcome' = IF err THEN "fail" ELSE "ok"
    /\ err' = FALSE
    /\ pc' = IF err THEN "exited" ELSE "wait"
    /\ exitCode' = IF err THEN 1 ELSE exitCode
    /\ resp' = NoResp
    /\ noLog
    /\ UNCHANGED <<modeVars, env, config, tickPending, rules, updatedRules, remote, healthy,
                   srv, conn, extSince, cleanFetch, fetches, writes, pureVars>>

\* (mutant) the error branch does not store the flag
updateHealthKeep ==
    /\ pc = "update"
    /\ lastCheckOK' = IF err THEN lastCheckOK ELSE TRUE
    /\ lastOutcome' = IF err THEN "fail" ELSE "ok"
    /\ err' = FALSE
    /\ pc' = "wait"
    /\ resp' = NoResp
    /\ noLog
    /\ UNCHANGED <<modeVars, env, config, exitCode, tickPending, rules, updatedRules, remote, healthy,
                   srv, conn, extSince, cleanFetch, fetches, writes, pureVars>>

\* (mutant) the success branch does not store the flag
updateHealthNoRecovery ==
    /\ pc = "update"
    /\ lastCheckOK' = IF err THEN FALSE ELSE lastCheckOK
    /\ lastOutcome' = IF err THEN "fail" ELSE "ok"
    /\ err' = FALSE
    /\ pc' = "wait"
    /\ resp' = NoResp
    /\ noLog
    /\ UNCHANGED <<modeVars, env, config, exitCode, tickPending, rules, updatedRules, remote, healthy,
                   srv, conn, extSince, cleanFetch, fetches, writes, pureVars>>

\* main: lastCheckOK = false after an error, lastCheckOK = true otherwise
updateHealth ==
    /\ pc = "update"
    /\ lastCheckOK' = ~err
    /\ lastOutcome' = IF err THEN "fail" ELSE "ok"
    /\ err' = FALSE
    /\ pc' = "wait"
    /\ resp' = NoResp
    /\ noLog
    /\ UNCHANGED <<modeVars, env, config, exitCode, tickPending, rules, updatedRules, remote, healthy,
                   srv, conn, extSince, cleanFetch, fetches, writes, pureVars>>

\* the ticker puts a tick into ticker.C (capacity 1; a tick that finds it full is dropped)
tickerFire ==
    /\ pc \in {"fetch", "write", "update", "wait"}
    /\ ~tickPending
    /\ tickPending' = TRUE
    /\ resp' = NoResp
    /\ noLog
    /\ UNCHANGED <<modeVars, env, config, pc, exitCode, rules, updatedRules, err, remote, healthy,
                   lastCheckOK, srv, conn, lastOutcome, extSince, cleanFetch, fetches,
                   writes, pureVars>>

\* (mutant) every tick starts a cycle of its own, whatever the previous one does
recvTickOverlapping ==
    /\ pc \in {"write", "update", "wait"}
    /\ tickPending
    /\ tickPending' = FALSE
    /\ pc' = "fetch"
    /\ fetches' = 0
    /\ writes' = 0
    /\ cleanFetch' = FALSE
    /\ resp' = NoResp
    /\ noLog
    /\ UNCHANGED <<modeVars, env, config, exitCode, rules, updatedRules, err, remote, healthy,
                   lastCheckOK, srv, conn, lastOutcome, extSince, pureVars>>

\* for range ticker.C: the loop takes the tick and starts the next cycle
recvTick ==
    /\ pc = "wait"
    /\ tickPending
    /\ tickPending' = FALSE
    /\ pc' = "fetch"
    /\ fetches' = 0
    /\ writes' = 0
    /\ cleanFetch' = FALSE
    /\ resp' = NoResp
    /\ noLog
    /\ UNCHANGED <<modeVars, env, config, exitCode, rules, updatedRules, err, remote, healthy,
                   lastCheckOK, srv, conn, lastOutcome, extSince, pureVars>>

\* What one request of the other writer makes of the list: a rule is added at
\* the end or one rule is taken out.  Any list of RemoteLists is a few such
\* requests away from any other.
ExtEdits(list) ==
    {Append(list, x) : x \in IF Len(list) < MaxRemote THEN Rules ELSE {}}
    \cup {SubSeq(list, 1, i - 1) \o SubSeq(list, i + 1, Len(list)) : i \in 1..Len(list)}

\* the other writer (external-dns) rewrites the remote list
extWrite ==
    /\ pc \in {"fetch", "write", "update", "wait"}
    /\ \E l \in ExtEdits(remote) : l # remote /\ remote' = l
    /\ extSince' = TRUE
    /\ resp' = NoResp
    /\ noLog
    /\ UNCHANGED <<modeVars, env, config, pc, exitCode, tickPending, rules, updatedRules, err, healthy,
                   lastCheckOK, srv, conn, lastOutcome, cleanFetch, fetches, writes, pureVars>>

\* ------------------------------------------------------ the health responder
\* (mutant) the flag is cleared as soon as the responder is started
listenUnhealthy ==
    /\ srv = "starting"
    /\ srv' = "listening"
    /\ healthy' = FALSE
    /\ resp' = NoResp
    /\ logs' = <<logListening(config.HealthPort)>>
    /\ logsAlt' = <<logListening(configAlt.HealthPort)>>
    /\ UNCHANGED <<modeVars, env, config, pc, exitCode, tickPending, rules, updatedRules, err, remote,
                   lastCheckOK, conn, lastOutcome, extSince, cleanFetch,
                   fetches, writes, pureVars>>

\* http.ListenAndServe binds the port and serves
listen ==
    /\ srv = "starting"
    /\ srv' = "listening"
    /\ resp' = NoResp
    /\ logs' = <<logListening(config.HealthPort)>>
    /\ logsAlt' = <<logListening(configAlt.HealthPort)>>
    /\ UNCHANGED <<modeVars, env, config, pc, exitCode, tickPending, rules, updatedRules, err, remote,
                   healthy, lastCheckOK, conn, lastOutcome, extSince, cleanFetch,
                   fetches, writes, pureVars>>

\* http.ListenAndServe returns an error: the port cannot be bound, or the
\* listener fails later.  Connections already accepted keep being served.
listenAndServeReturns ==
    /\ srv \in {"starting", "listening"}
    /\ srv' = "stopped"
    /\ resp' = NoResp
    /\ logs' = IF srv = "starting"
               THEN <<logListening(config.HealthPort), logServerError>>
               ELSE <<logServerError>>
    /\ logsAlt' = IF srv = "starting"
                  THEN <<logListening(configAlt.HealthPort), logServerError>>
                  ELSE <<logServerError>>
    /\ UNCHANGED <<modeVars, env, config, pc, exitCode, tickPending, rules, updatedRules, err, remote,
                   healthy, lastCheckOK, conn, lastOutcome, extSince, cleanFetch,
                   fetches, writes, pureVars>>

\* (mutant) the error of the responder ends the process (log.Fatalf)
setUnhealthyFatal ==
    /\ srv = "stopped"
    /\ healthy' = FALSE
    /\ srv' = "failed"
    /\ pc' = "exited"
    /\ exitCode' = 1
    /\ resp' = NoResp
    /\ noLog
    /\ UNCHANGED <<modeVars, env, config, tickPending, rules, updatedRules, err, remote,
                   lastCheckOK, conn, lastOutcome, extSince, cleanFetch,
                   fetches, writes, pureVars>>

\* startHealthServer after the error: healthy = false
setUnhealthy ==
    /\ srv = "stopped"
    /\ healthy' = FALSE
    /\ srv' = "failed"
    /\ resp' = NoResp
    /\ noLog
    /\ UNCHANGED <<modeVars, env, config, pc, exitCode, tickPending, rules, updatedRules, err, remote,
                   lastCheckOK, conn, lastOutcome, extSince, cleanFetch,
                   fetches, writes, pureVars>>

\* a client connects to the listening responder
accept ==
    /\ srv = "listening"
    /\ ~conn
    /\ conn' = TRUE
    /\ resp' = NoResp
    /\ noLog
    /\ UNCHANGED <<modeVars, env, config, pc, exitCode, tickPending, rules, updatedRules, err, remote,
                   healthy, lastCheckOK, srv, lastOutcome, extSince, cleanFetch,
                   fetches, writes, pureVars>>

\* a probe is answered on a fresh connection to the listening responder or on a
\* connection that is already open
CanAnswer == srv = "listening" \/ conn

\* (mutant) the handler looks at lastCheckOK alone
healthzStatusLastOnly == IF lastCheckOK THEN StatusOK ELSE StatusServiceUnavailable

\* the status the /healthz handler writes
healthzStatus == IF healthy /\ lastCheckOK THEN StatusOK ELSE StatusServiceUnavailable

\* (mutant) readiness follows the last cycle
readyzStatusGated == IF lastCheckOK THEN StatusOK ELSE StatusServiceUnavailable

\* the status the /readyz handler writes
readyzStatus == StatusOK

\* (mutant) the handler runs a check of its own before it answers
healthzTriggers ==
    /\ CanAnswer
    /\ resp' = [path |-> "/healthz", status |-> healthzStatus]
    /\ noLog
    /\ tickPending' = TRUE
    /\ UNCHANGED <<modeVars, env, config, pc, exitCode, rules, updatedRules, err, remote,
                   healthy, lastCheckOK, srv, conn, lastOutcome, extSince, cleanFetch,
                   fetches, writes, pureVars>>

\* the /healthz handler answers a request
healthz ==
    /\ CanAnswer
    /\ resp' = [path |-> "/healthz", status |-> healthzStatus]
    /\ noLog
    /\ UNCHANGED <<modeVars, env, config, pc, exitCode, tickPending, rules, updatedRules, err, remote,
                   healthy, lastCheckOK, srv, conn, lastOutcome, extSince, cleanFetch,
                   fetches, writes, pureVars>>

\* the /readyz handler answers a request
readyz ==
    /\ CanAnswer
    /\ resp' = [path |-> "/readyz", status |-> readyzStatus]
    /\ noLog
    /\ UNCHANGED <<modeVars, env, config, pc, exitCode, tickPending, rules, updatedRules, err, remote,
                   healthy, lastCheckOK, srv, conn, lastOutcome, extSince, cleanFetch,
                   fetches, writes, pureVars>>

\* ------------------------------------------------------- the running system
InitPureIdle ==
    /\ L = NilSlice
    /\ T = Target
    /\ action = NoDecision
    /\ second = NoDecision
    /\ arg = 0
    /\ res = 0
    /\ applied = FALSE

InitSys(p) ==
    /\ logs = <<>>
    /\ logsAlt = <<>>
    /\ clientProbes = 0
    /\ clientGot = NoProbe
    /\ config = ZeroConfig
    /\ pc = p
    /\ exitCode = -1
    /\ tickPending = FALSE
    /\ rules = NilSlice
    /\ updatedRules = NilSlice
    /\ err = FALSE
    /\ healthy = TRUE
    /\ lastCheckOK = TRUE
    /\ srv = "none"
    /\ conn = FALSE
    /\ resp = NoResp
    /\ lastOutcome = "none"
    /\ extSince = FALSE
    /\ cleanFetch = FALSE
    /\ fetches = 0
    /\ writes = 0

Init ==
    /\ \/ healthCheck = FALSE /\ env \in Envs
       \/ healthCheck = TRUE /\ env \in HealthEnvs
    /\ remote \in RemoteLists
    /\ InitSys("main")
    /\ InitPureIdle

Next ==
    \/ healthCheckClient
    \/ loadConfig
    \/ goStartHealthServer
    \/ enforceFetch
    \/ enforceWrite
    \/ updateHealth
    \/ tickerFire
    \/ recvTick
    \/ extWrite
    \/ listen
    \/ listenAndServeReturns
    \/ setUnhealthy
    \/ accept
    \/ healthz
    \/ readyz

Spec == Init /\ [][Next]_vars

\* ------------------------------------------------- the decision on its own
\* decide applied to every list and target within the bounds
InitDecide ==
    /\ L \in SlicesUpTo(MaxLen)
    /\ T \in Rules
    /\ action = NoDecision
    /\ second = NoDecision
    /\ arg = 0
    /\ res = 0
    /\ applied = FALSE
    /\ healthCheck = FALSE
    /\ env \in {[ADGUARD_URL |-> "", ADGUARD_USER |-> "", ADGUARD_PASS |-> "", TARGET_RULE |-> "",
                 HEALTH_PORT |-> ""]}
    /\ remote = <<>>
    /\ InitSys("off")

Decide ==
    /\ action = NoDecision
    /\ action' = decide(L, T)
    /\ UNCHANGED <<L, T, second, arg, res, applied, sysVars>>

DecideAgain ==
    /\ action.kind = "Reorder"
    /\ second = NoDecision
    /\ second' = decide(action.newList, T)
    /\ UNCHANGED <<L, T, action, arg, res, applied, sysVars>>

NextDecide == Decide \/ DecideAgain

DecideSpec == InitDecide /\ [][NextDecide]_vars

\* ----------------------------------------------------- fetchUserRules on its own
\* every response an HTTP endpoint can give to the GET: any status, any body
AnyFetchResponses ==
    {[err |-> TRUE, status |-> 0, body |-> Body("invalid", <<>>)]}
    \cup {[err |-> FALSE, status |-> st, body |-> Body(k, IF k = "rules" THEN l ELSE <<>>)] :
            st \in {StatusOK, 401, 500}, k \in BodyKinds, l \in SeqsUpTo(Rules, MaxLen)}

InitPure(args) ==
    /\ L = NilSlice
    /\ T = Target
    /\ action = NoDecision
    /\ second = NoDecision
    /\ arg \in args
    /\ res = 0
    /\ applied = FALSE
    /\ healthCheck = FALSE
    /\ env \in {[ADGUARD_URL |-> "", ADGUARD_USER |-> "", ADGUARD_PASS |-> "", TARGET_RULE |-> "",
                 HEALTH_PORT |-> ""]}
    /\ remote = <<>>
    /\ InitSys("off")

InitFetch == InitPure(AnyFetchResponses)

Fetch ==
    /\ ~applied
    /\ res' = fetchUserRules(arg)
    /\ applied' = TRUE
    /\ UNCHANGED <<L, T, action, second, arg, sysVars>>

FetchSpec == InitFetch /\ [][Fetch]_vars

\* ------------------------------------------------- CHECK_INTERVAL to a period
\* Integers wider than 32 bits are little-endian sequences of bytes.
Base == 256

limb(x, i) == IF i <= Len(x) THEN x[i] ELSE 0

zeros(nl) == [i \in 1..nl |-> 0]

isZero(x) == \A i \in 1..Len(x) : x[i] = 0

RECURSIVE convSum(_, _, _, _)
convSum(x, y, k, i) ==
    IF i > k THEN 0 ELSE limb(x, i) * limb(y, k + 1 - i) + convSum(x, y, k, i + 1)

RECURSIVE mulFrom(_, _, _, _, _)
mulFrom(x, y, k, carry, nl) ==
    IF k > nl THEN <<>>
    ELSE <<(carry + convSum(x, y, k, 1)) % Base>>
         \o mulFrom(x, y, k + 1, (carry + convSum(x, y, k, 1)) \div Base, nl)

\* x * y, cut to nl bytes (modulo 2^(8 nl))
mulLimbs(x, y, nl) == mulFrom(x, y, 1, 0, nl)

RECURSIVE mulAddFrom(_, _, _, _, _)
mulAddFrom(x, k, i, carry, nl) ==
    IF i > nl THEN <<>>
    ELSE <<(limb(x, i) * k + carry) % Base>>
         \o mulAddFrom(x, k, i + 1, (limb(x, i) * k + carry) \div Base, nl)

\* x * k + d for small k and d, cut to nl bytes
mulAdd(x, k, d, nl) == mulAddFrom(x, k, 1, d, nl)

\* the value as a signed integer of Len(x) bytes is negative
isNegative(x) == x[Len(x)] >= 128

\* the magnitude fits a signed integer of `bytes` bytes, as a positive or as a
\* negative value
fitsSigned(mag, bytes, neg) ==
    /\ \A i \in (bytes + 1)..Len(mag) : mag[i] = 0
    /\ \/ mag[bytes] < 128
       \/ neg /\ mag[bytes] = 128 /\ \A i \in 1..(bytes - 1) : mag[i] = 0

DigitValue(c) ==
    CASE c = "0" -> 0 [] c = "1" -> 1 [] c = "2" -> 2 [] c = "3" -> 3 [] c = "4" -> 4
      [] c = "5" -> 5 [] c = "6" -> 6 [] c = "7" -> 7 [] c = "8" -> 8 [] c = "9" -> 9
      [] OTHER -> -1

\* the decimal digits of str from position i on, added to acc; the magnitude is
\* kept in 10 bytes and anything beyond 9 bytes is out of every int's range
RECURSIVE parseDigits(_, _, _)
parseDigits(str, i, acc) ==
    IF i > Len(str) THEN acc
    ELSE IF DigitValue(str[i]) < 0 THEN [acc EXCEPT !.syntax = TRUE]
    ELSE IF acc.range THEN parseDigits(str, i + 1, acc)
    ELSE LET m == mulAdd(acc.mag, 10, DigitValue(str[i]), 10)
         IN  IF m[10] # 0
             THEN parseDigits(str, i + 1, [acc EXCEPT !.range = TRUE])
             ELSE parseDigits(str, i + 1, [acc EXCEPT !.mag = m])

\* strconv.Atoi for an int of intSize bits: a syntax error, a range error, or
\* the value as sign and magnitude
Atoi(str, intSize) ==
    LET signed == Len(str) > 0 /\ str[1] \in {"+", "-"}
        neg == Len(str) > 0 /\ str[1] = "-"
        first == IF signed THEN 2 ELSE 1
        p == parseDigits(str, first, [mag |-> zeros(10), syntax |-> FALSE, range |-> FALSE])
    IN  IF first > Len(str) \/ p.syntax THEN [err |-> TRUE, neg |-> FALSE, mag |-> zeros(8)]
        ELSE IF p.range \/ ~fitsSigned(p.mag, intSize \div 8, neg)
        THEN [err |-> TRUE, neg |-> FALSE, mag |-> zeros(8)]
        ELSE [err |-> FALSE, neg |-> neg /\ ~isZero(p.mag), mag |-> SubSeq(p.mag, 1, 8)]

\* time.Second, in nanoseconds
Second == <<0, 202, 154, 59>>

\* time.Duration(seconds) * time.Second: an int64, the product modulo 2^64
durationSeconds(mag) == mulLimbs(mag, Second, 8)

\* loadConfig's CHECK_INTERVAL block, then time.NewTicker(config.CheckInterval),
\* which panics for a duration that is not positive
checkInterval(str, intSize) ==
    IF str = <<>> THEN [outcome |-> "ok", period |-> durationSeconds(<<60>>)]
    ELSE IF Atoi(str, intSize).err THEN [outcome |-> "fatal", period |-> zeros(8)]
    ELSE IF Atoi(str, intSize).neg \/ isZero(Atoi(str, intSize).mag)
    THEN [outcome |-> "fatal", period |-> zeros(8)]
    ELSE LET d == durationSeconds(Atoi(str, intSize).mag)
         IN  IF isNegative(d) \/ isZero(d)
             THEN [outcome |-> "panic", period |-> d]
             ELSE [outcome |-> "ok", period |-> d]

\* The values of CHECK_INTERVAL tried: every short string over a few
\* characters, and longer ones around the limits of int and of time.Duration
MaxDigits == 2
IntervalChars == {"-", "0", "1", "6", "x"}
LongIntervals ==
    {<<"6", "0">>,
     <<"3", "6", "0", "0">>,
     <<"2", "1", "4", "7", "4", "8", "3", "6", "4", "7">>,
     <<"2", "1", "4", "7", "4", "8", "3", "6", "4", "8">>,
     <<"9", "2", "2", "3", "3", "7", "2", "0", "3", "6">>,
     <<"9", "2", "2", "3", "3", "7", "2", "0", "3", "7">>,
     <<"1", "8", "4", "4", "6", "7", "4", "4", "0", "7", "4">>,
     <<"9", "2", "2", "3", "3", "7", "2", "0", "3", "6", "8", "5", "4", "7", "7", "5", "8", "0", "7">>,
     <<"9", "2", "2", "3", "3", "7", "2", "0", "3", "6", "8", "5", "4", "7", "7", "5", "8", "0", "8">>,
     <<"-", "9", "2", "2", "3", "3", "7", "2", "0", "3", "6", "8", "5", "4", "7", "7", "5", "8", "0", "8">>,
     <<"+", "5">>,
     <<"1", "e", "3">>,
     <<"9", "9", "9", "9", "9", "9", "9", "9", "9", "9", "9", "9", "9", "9", "9", "9", "9", "9", "9", "9">>}

\* the sizes of int the builds have (GOARCH is the target's)
IntSizes == {32, 64}

IntervalInputs ==
    [str : SeqsUpTo(IntervalChars, MaxDigits) \cup LongIntervals, intSize : IntSizes]

InitInterval == InitPure(IntervalInputs)

LoadInterval ==
    /\ ~applied
    /\ res' = checkInterval(arg.str, arg.intSize)
    /\ applied' = TRUE
    /\ UNCHANGED <<sysVars, L, T, action, second, arg>>

IntervalSpec == InitInterval /\ [][LoadInterval]_vars


\* --------------------------------------------- the body of the write request
\* A Go string is a sequence of units: a character, or a byte that is not
\* part of valid UTF-8 ("XFF").  The characters told apart are a letter, a
\* comma, the quotation mark, the backslash, the less-than sign, the newline and
\* the replacement character U+FFFD; a JSON text is a sequence of the same
\* units plus the letters and signs of its syntax.
Chars == {"a", ",", "QUOTE", "BSL", "LT", "NL", "XFF"}

\* (mutant) the quotation mark is written as it is
escapeNoQuote(c) ==
    CASE c = "BSL" -> <<"BSL", "BSL">>
      [] c = "NL" -> <<"BSL", "n">>
      [] c = "LT" -> <<"BSL", "u", "0", "0", "3", "c">>
      [] c = "XFF" -> <<"BSL", "u", "f", "f", "f", "d">>
      [] OTHER -> <<c>>

\* json.Marshal of one unit of a string (HTML escaping is on)
escape(c) ==
    CASE c = "QUOTE" -> <<"BSL", "QUOTE">>
      [] c = "BSL" -> <<"BSL", "BSL">>
      [] c = "NL" -> <<"BSL", "n">>
      [] c = "LT" -> <<"BSL", "u", "0", "0", "3", "c">>
      [] c = "XFF" -> <<"BSL", "u", "f", "f", "f", "d">>
      [] OTHER -> <<c>>

RECURSIVE escapeAll(_)
escapeAll(str) == IF str = <<>> THEN <<>> ELSE escape(Head(str)) \o escapeAll(Tail(str))

marshalString(str) == <<"QUOTE">> \o escapeAll(str) \o <<"QUOTE">>

RECURSIVE marshalElems(_)
marshalElems(l) ==
    IF l = <<>> THEN <<>>
    ELSE IF Len(l) = 1 THEN marshalString(l[1])
    ELSE marshalString(l[1]) \o <<",">> \o marshalElems(Tail(l))

\* json.Marshal(payload), payload.Rules the slice x
marshalPayload(x) ==
    <<"{", "QUOTE", "r", "u", "l", "e", "s", "QUOTE", ":">>
    \o (IF x.isNil THEN <<"n", "u", "l", "l">> ELSE <<"[">> \o marshalElems(x.elems) \o <<"]">>)
    \o <<"}">>

DecodeFail == [ok |-> FALSE, val |-> <<>>, next |-> 0]

\* A JSON string from b[i] on (after its opening quotation mark)
RECURSIVE decodeString(_, _, _)
decodeString(b, i, acc) ==
    IF i > Len(b) THEN DecodeFail
    ELSE IF b[i] = "QUOTE" THEN [ok |-> TRUE, val |-> acc, next |-> i + 1]
    ELSE IF b[i] = "NL" THEN DecodeFail
    ELSE IF b[i] = "XFF" THEN decodeString(b, i + 1, Append(acc, "UFFFD"))
    ELSE IF b[i] # "BSL" THEN decodeString(b, i + 1, Append(acc, b[i]))
    ELSE IF i + 1 > Len(b) THEN DecodeFail
    ELSE IF b[i + 1] \in {"QUOTE", "BSL"} THEN decodeString(b, i + 2, Append(acc, b[i + 1]))
    ELSE IF b[i + 1] = "n" THEN decodeString(b, i + 2, Append(acc, "NL"))
    ELSE IF b[i + 1] # "u" \/ i + 5 > Len(b) THEN DecodeFail
    ELSE IF SubSeq(b, i + 2, i + 5) = <<"0", "0", "3", "c">>
    THEN decodeString(b, i + 6, Append(acc, "LT"))
    ELSE IF SubSeq(b, i + 2, i + 5) = <<"f", "f", "f", "d">>
    THEN decodeString(b, i + 6, Append(acc, "UFFFD"))
    ELSE DecodeFail

\* The elements of a JSON array of strings from b[i] on (after its "[")
RECURSIVE decodeElems(_, _, _)
decodeElems(b, i, acc) ==
    IF i > Len(b) THEN DecodeFail
    ELSE IF b[i] = "]" /\ acc = <<>> THEN [ok |-> TRUE, val |-> acc, next |-> i + 1]
    ELSE IF b[i] # "QUOTE" THEN DecodeFail
    ELSE LET str == decodeString(b, i + 1, <<>>)
         IN  IF ~str.ok \/ str.next > Len(b) THEN DecodeFail
             ELSE IF b[str.next] = "]"
             THEN [ok |-> TRUE, val |-> Append(acc, str.val), next |-> str.next + 1]
             ELSE IF b[str.next] = ","
             THEN IF str.next + 1 <= Len(b) /\ b[str.next + 1] = "QUOTE"
                  THEN decodeElems(b, str.next + 1, Append(acc, str.val))
                  ELSE DecodeFail
             ELSE DecodeFail

\* json.Unmarshal of a request body into struct{ Rules []string `json:"rules"` },
\* for the bodies of the form {"rules": null or an array of strings}
unmarshalPayload(b) ==
    LET prefix == <<"{", "QUOTE", "r", "u", "l", "e", "s", "QUOTE", ":">>
    IN  IF Len(b) < Len(prefix) + 2 \/ SubSeq(b, 1, Len(prefix)) # prefix
        THEN [ok |-> FALSE, Rules |-> NilSlice]
        ELSE IF SubSeq(b, Len(prefix) + 1, Len(b)) = <<"n", "u", "l", "l", "}">>
        THEN [ok |-> TRUE, Rules |-> NilSlice]
        ELSE IF b[Len(prefix) + 1] # "["
        THEN [ok |-> FALSE, Rules |-> NilSlice]
        ELSE LET l == decodeElems(b, Len(prefix) + 2, <<>>)
             IN  IF l.ok /\ l.next = Len(b) /\ b[l.next] = "}"
                 THEN [ok |-> TRUE, Rules |-> Slice(l.val)]
                 ELSE [ok |-> FALSE, Rules |-> NilSlice]

\* the request updateUserRules sends for the slice x
writeRequest(x) ==
    [method |-> "POST", path |-> "/control/filtering/set_rules",
     contentType |-> "application/json", body |-> marshalPayload(x)]

\* The lists of strings whose elements and units together number at most w
MaxBody == 4

RECURSIVE ListsOfWeight(_)
ListsOfWeight(w) ==
    IF w <= 0 THEN {<<>>}
    ELSE {<<>>} \cup
         UNION {{<<str>> \o rest : rest \in ListsOfWeight(w - 1 - Len(str))} :
                  str \in SeqsUpTo(Chars, w - 1)}

\* what client.Do may return for the write, whatever the server is
AnyWriteResponses ==
    {[err |-> TRUE, status |-> 0, applied |-> FALSE]}
    \cup {[err |-> FALSE, status |-> st, applied |-> st = StatusOK] :
            st \in {StatusOK, 201, 204, 401, 415, 500}}

WriteInputs ==
    [list : {NilSlice} \cup {Slice(l) : l \in ListsOfWeight(MaxBody)}, r : AnyWriteResponses]

InitWrite == InitPure(WriteInputs)

Write ==
    /\ ~applied
    /\ res' = [request |-> writeRequest(arg.list), err |-> updateUserRules(arg.r)]
    /\ applied' = TRUE
    /\ UNCHANGED <<sysVars, L, T, action, second, arg>>

WriteSpec == InitWrite /\ [][Write]_vars


\* The scheduler with the fairness its scheduling gives: the ticker keeps
\* firing, the loop takes a pending tick, and every network call returns (each
\* has a 10 s client timeout), so a started step of a cycle completes.
FairSpec ==
    /\ Spec
    /\ WF_vars(loadConfig)
    /\ WF_vars(goStartHealthServer)
    /\ WF_vars(tickerFire)
    /\ WF_vars(recvTick)
    /\ WF_vars(enforceFetch)
    /\ WF_vars(enforceWrite)
    /\ WF_vars(updateHealth)

\* ================================================================== claims
Last(s) == s[Len(s)]
Count(s, x) == Cardinality({i \in 1..Len(s) : s[i] = x})
Without(s, x) == SelectSeq(s, LAMBDA y : y # x)
InLoop == pc \in {"fetch", "write", "update", "wait"}
\* no cycle has started since the last one finished
BetweenCycles == pc = "wait" \/ (pc = "fetch" /\ lastOutcome # "none")

C2_NoOpIffTargetLast ==
    action # NoDecision =>
        /\ action.kind \in {"NoOp", "Reorder"}
        /\ action.kind = "NoOp" <=> (L.elems # <<>> /\ Last(L.elems) = T)

\* C2 witness: a list holding the target twice, the second time last, gives NoOp
C2_Witness == action.kind = "NoOp" /\ Count(L.elems, T) = 2

\* C3: the list of a Reorder holds the target exactly once, as its last element,
\* and the rest of it is the input without the target, in the input's order.
C3_ReorderShape ==
    action.kind = "Reorder" =>
        LET n == action.newList.elems
        IN  /\ ~action.newList.isNil
            /\ Count(n, T) = 1
            /\ Last(n) = T
            /\ SubSeq(n, 1, Len(n) - 1) = Without(L.elems, T)

\* C3 witness: several occurrences of the target collapse into one
C3_Witness ==
    /\ action.kind = "Reorder"
    /\ Count(L.elems, T) = 2
    /\ Len(action.newList.elems) = Len(L.elems) - 1

\* C4: decide applied to the list of a Reorder is NoOp.
C4_DecideIdempotent == second # NoDecision => second.kind = "NoOp"

\* C4 witness: the second decision was taken on the list made from the nil list
C4_Witness == second.kind = "NoOp" /\ L.isNil /\ action.newList.elems = <<T>>

C6_FailedCycleLoopGoesOn ==
    /\ [](lastOutcome = "fail" => (~lastCheckOK /\ InLoop /\ exitCode = -1))
    /\ ((pc = "wait" /\ lastOutcome = "fail") ~> (pc = "fetch"))

\* C6 witness: a cycle has started after a failed one
C6_Witness == pc = "fetch" /\ lastOutcome = "fail" /\ fetches = 0 /\ ~lastCheckOK

\* C7: every rule in the remote list immediately before a write of the sidecar
\* is in the remote list immediately after it.
C7_NonDestructive ==
    [][(pc = "write" /\ pc' = "update") => Range(remote) \subseteq Range(remote')]_vars

\* C8 as stated: /healthz answers 200 only if the responder is up and the most
\* recent cycle succeeded, and 503 in every other state, the states before the
\* first cycle has finished included.
C8_Original ==
    resp.path = "/healthz" =>
        /\ resp.status \in {StatusOK, StatusServiceUnavailable}
        /\ resp.status = StatusOK <=> (healthy /\ lastOutcome = "ok")

\* C8 amended: /healthz answers 200 exactly when the responder is up and no
\* finished cycle has failed last (no cycle has finished yet, or the one that
\* finished last succeeded), and 503 otherwise.
C8_HealthzStatus ==
    resp.path = "/healthz" =>
        /\ resp.status \in {StatusOK, StatusServiceUnavailable}
        /\ resp.status = StatusOK <=> (healthy /\ lastOutcome \in {"none", "ok"})

\* C8 witness: a probe answered 200 while the first cycle is in progress
C8_Witness ==
    resp = [path |-> "/healthz", status |-> StatusOK] /\ lastOutcome = "none" /\ pc = "write"

\* C9: while the cycle that finished last is a failed one, /healthz answers 503
\* and /readyz, in the same state, answers 200.
C9_UnhealthyButReady ==
    /\ (CanAnswer /\ lastOutcome = "fail") =>
           (healthzStatus = StatusServiceUnavailable /\ readyzStatus = StatusOK)
    /\ (resp.path = "/healthz" /\ lastOutcome = "fail") => resp.status = StatusServiceUnavailable
    /\ (resp.path = "/readyz" /\ lastOutcome = "fail") => resp.status = StatusOK

\* C9 witness: /healthz answered 503 after a failed cycle, the responder being up
C9_Witness ==
    /\ resp = [path |-> "/healthz", status |-> StatusServiceUnavailable]
    /\ lastOutcome = "fail" /\ healthy /\ pc = "wait"

\* C10: every answer of /readyz is 200, and /readyz can be answered in every
\* state in which the responder listens.
C10_ReadyzAlways200 ==
    /\ resp.path = "/readyz" => resp.status = StatusOK
    /\ srv = "listening" => (CanAnswer /\ readyzStatus = StatusOK)

\* C10 witness: /readyz answered 200 with both flags false
C10_Witness ==
    resp = [path |-> "/readyz", status |-> StatusOK] /\ ~healthy /\ ~lastCheckOK

\* C11: a step that answers a probe changes nothing but the answer: the health
\* flags, the remote list, the scheduler and the responder stay as they are;
\* and whether a probe can be answered does not depend on where the scheduler is.
C11_ProbeChangesNothing ==
    /\ [][resp' # NoResp =>
            UNCHANGED <<modeVars, env, config, pc, exitCode, tickPending, rules, updatedRules, err,
                        remote, healthy, lastCheckOK, srv, conn, lastOutcome, extSince,
                        cleanFetch, fetches, writes>>]_vars
    /\ [](CanAnswer => (ENABLED healthz /\ ENABLED readyz))

\* C11 witness: a probe answered while the cycle is between its fetch and its write
C11_Witness == resp.path = "/healthz" /\ pc = "write" /\ fetches = 1 /\ writes = 0

\* C12: a cycle starts only when the previous one has stored its outcome: the
\* startup cycle from main's startup, every later one from the wait on the
\* ticker, after a cycle has finished, however long a tick has been pending.
C12_OneCycleAtATime ==
    [][(pc' = "fetch" /\ pc # "fetch") =>
          \/ (pc = "startHealth" /\ lastOutcome = "none")
          \/ (pc = "wait" /\ tickPending /\ lastOutcome # "none")]_vars

\* C12 witness: a tick is pending while the startup cycle is still at its write
C12_Witness == tickPending /\ pc = "write" /\ lastOutcome = "none"

\* C13: a cycle makes one fetch attempt and at most one write attempt; a failed
\* fetch ends the cycle with no write, and a failed write ends it too.
C13_OneFetchOneWrite ==
    /\ [](/\ fetches <= 1
          /\ writes <= 1
          /\ pc = "fetch" => (fetches = 0 /\ writes = 0)
          /\ pc = "write" => (fetches = 1 /\ writes = 0)
          /\ pc \in {"update", "wait"} => fetches = 1)
    /\ [][/\ (pc = "fetch" /\ err') => (pc' = "update" /\ writes' = 0)
          /\ (pc = "write" /\ pc' # "write") => (pc' = "update" /\ writes' = 1)
          /\ pc = "update" => (writes' = writes /\ fetches' = fetches)]_vars

\* C13 witness: a cycle has ended after a failed write
C13_Witness == pc = "wait" /\ lastOutcome = "fail" /\ fetches = 1 /\ writes = 1

\* the body is an object that carries the user_rules list (null for no rules)
ExpectedShape(body) == body.kind \in {"rules", "rulesNull"}

\* C14: fetchUserRules returns an error whenever the status is not 200 or the
\* body is not an object carrying the user_rules list.
C14_FetchFailsOnBadResponse ==
    applied => ((arg.err \/ arg.status # StatusOK \/ ~ExpectedShape(arg.body)) => res.err)

\* The settings the sidecar cannot run without
RequiredSettings == {"ADGUARD_URL", "ADGUARD_USER", "ADGUARD_PASS", "TARGET_RULE"}

\* C15: a run of the sidecar with a required setting missing or empty ends in
\* loadConfig with exit status 1: the responder is never started, no ticker is
\* made, no fetch and no write is attempted and no cycle finishes.
C15_MissingSettingFatal ==
    (~healthCheck /\ \E k \in RequiredSettings : env[k] = "") =>
        /\ pc \in {"main", "exited"}
        /\ pc = "exited" => (exitCode # 0 /\ exitCode # -1)
        /\ config = ZeroConfig
        /\ srv = "none" /\ ~conn
        /\ ~tickPending
        /\ fetches = 0 /\ writes = 0 /\ lastOutcome = "none"

\* C15 witness: the process has exited because TARGET_RULE alone is missing
C15_Witness ==
    /\ ~healthCheck /\ pc = "exited" /\ exitCode = 1
    /\ env.TARGET_RULE = "" /\ env.ADGUARD_URL # "" /\ env.ADGUARD_USER # ""
    /\ env.ADGUARD_PASS # ""

\* C17: with -health the process makes one request, GET /healthz on localhost
\* at the responder's port, exits 0 exactly when it is answered with 200 and 1
\* otherwise, and never loads the configuration, starts a responder or a cycle.
C17_HealthCheckMode ==
    healthCheck =>
        /\ pc \in {"main", "exited"}
        /\ config = ZeroConfig
        /\ srv = "none" /\ ~tickPending
        /\ fetches = 0 /\ writes = 0 /\ lastOutcome = "none"
        /\ pc = "main" => (clientProbes = 0 /\ exitCode = -1)
        /\ pc = "exited" =>
              /\ clientProbes = 1
              /\ clientGot.port = healthPort(env)
              /\ exitCode \in {0, 1}
              /\ exitCode = 0 <=> (~clientGot.err /\ clientGot.status = StatusOK)

\* C17 witness: the probe was answered 503 and the client has exited with 1
C17_Witness ==
    /\ healthCheck /\ pc = "exited" /\ exitCode = 1
    /\ ~clientGot.err /\ clientGot.status = StatusServiceUnavailable

\* C19: the lines a step writes to the log are the lines it writes in the run
\* whose username and password have other values and that is given the same
\* responses, and no line holds the username or the password.
C19_CredentialsNotLogged ==
    /\ logs = logsAlt
    /\ \A i \in 1..Len(logs) : \A j \in 1..Len(logs[i]) :
          logs[i][j] \notin {env.ADGUARD_USER, env.ADGUARD_PASS} \ {""}

\* C19 witness: a later cycle fails in its write and main logs the error, with
\* both credentials configured
C19_Witness ==
    /\ env.ADGUARD_USER = "admin" /\ env.ADGUARD_PASS = "secret"
    /\ pc = "update" /\ writes = 1 /\ lastOutcome # "none"
    /\ Len(logs) = 1 /\ Len(logs[1]) > 2
    /\ logs[1][1] = "Error enforcing rule position: %v"
    /\ logs[1][2] = "failed to update rules: %w"

\* The steps of a cycle in their order
CycleOrder ==
    {<<"fetch", "write">>, <<"fetch", "update">>, <<"write", "update">>,
     <<"update", "wait">>, <<"wait", "fetch">>}

\* C20: a cycle goes fetch, decision, optional write, health update.  A write
\* is pending only after this cycle's one successful fetch, of a list that
\* does not end with the target; the list to write is the one computed from
\* the list this cycle's fetch returned and stays so until it is sent; the
\* requests are sent in their steps only; lastCheckOK is stored only in the
\* step after the cycle's last request has returned.
C20_CycleOrder ==
    /\ [](pc = "write" =>
            /\ fetches = 1 /\ writes = 0 /\ ~err
            /\ (rules.elems = <<>> \/ Last(rules.elems) # config.TargetRule)
            /\ updatedRules.elems =
                  Without(rules.elems, config.TargetRule) \o <<config.TargetRule>>)
    /\ [][(InLoop /\ pc' # pc) => <<pc, pc'>> \in CycleOrder]_vars
    /\ [][(pc # "write" /\ pc' = "write") =>
            (pc = "fetch" /\ fetches' = fetches + 1 /\ rules'.elems = remote)]_vars
    /\ [][(pc = "write" /\ pc' = "write") => UNCHANGED <<rules, updatedRules>>]_vars
    /\ [][fetches' = fetches + 1 => pc = "fetch"]_vars
    /\ [][writes' = writes + 1 =>
            (pc = "write" /\ pc' = "update" /\ remote' \in {remote, updatedRules.elems})]_vars
    /\ [][(lastCheckOK' # lastCheckOK \/ lastOutcome' # lastOutcome) =>
            (pc = "update" /\ pc' = "wait" /\ fetches = 1 /\ UNCHANGED <<fetches, writes, remote>>)]_vars

\* C20 witness: in a cycle after a failed one the write has returned without
\* error and the health update is still to come
C20_Witness ==
    /\ pc = "update" /\ fetches = 1 /\ writes = 1 /\ ~err
    /\ lastOutcome = "fail" /\ ~lastCheckOK

\* n seconds in nanoseconds, as the integer it is (12 bytes hold it)
ExactSeconds(mag) == mulLimbs(mag, Second, 12)

\* C18: an unset CHECK_INTERVAL gives 60 seconds; a value that is no integer
\* or is not positive ends the process in loadConfig; a value that parses as
\* a positive integer n gives a ticker whose period is n seconds and positive.
C18_PeriodPositive ==
    applied =>
        LET n == Atoi(arg.str, arg.intSize)
        IN  /\ arg.str = <<>> =>
                 (res.outcome = "ok" /\ res.period = <<0, 88, 71, 248, 13, 0, 0, 0>>)
            /\ (arg.str # <<>> /\ (n.err \/ n.neg \/ isZero(n.mag))) => res.outcome = "fatal"
            /\ (arg.str # <<>> /\ ~n.err /\ ~n.neg /\ ~isZero(n.mag)) =>
                 /\ res.outcome = "ok"
                 /\ res.period \o zeros(4) = ExactSeconds(n.mag)
                 /\ ~isNegative(res.period) /\ ~isZero(res.period)

\* the strings of the list are text: no unit is an invalid byte
IsText(l) == \A i \in 1..Len(l) : \A j \in 1..Len(l[i]) : l[i][j] # "XFF"

\* the request is a JSON write of the list: its body decodes to the list
SendsList(req, l) ==
    /\ req.contentType = "application/json"
    /\ unmarshalPayload(req.body).ok
    /\ unmarshalPayload(req.body).Rules.elems = l

\* C16 as stated: for every list the body of the request decodes to the list,
\* and the write succeeds exactly when the answer has status 200.
C16_Original ==
    applied =>
        /\ SendsList(res.request, arg.list.elems)
        /\ ~res.err <=> (~arg.r.err /\ arg.r.status = StatusOK)

\* C16: for every list of strings that are text (valid UTF-8) the request has
\* content type application/json and a body, a JSON object with the field
\* rules, that decodes to the list, same elements in the same order; the
\* write succeeds exactly when the answer has status 200.
C16_WriteRoundTrip ==
    applied =>
        /\ IsText(arg.list.elems) => SendsList(res.request, arg.list.elems)
        /\ ~res.err <=> (~arg.r.err /\ arg.r.status = StatusOK)

\* C16 witness: a list of two rules, a quotation mark and a less-than sign,
\* was sent and the answer was 200
C16_Witness ==
    /\ applied /\ ~res.err
    /\ arg.list.elems = <<<<"QUOTE">>, <<"LT">>>>
    /\ unmarshalPayload(res.request.body).Rules.elems = <<<<"QUOTE">>, <<"LT">>>>

\* C21: once a cycle has finished, lastCheckOK is the outcome of the cycle
\* that finished last; the step that finishes a cycle stores false after an
\* error and true otherwise, whatever the flag was, the process goes on, and
\* with the responder up /healthz answers 200 again from then on.
C21_LastCheckOKIsLastOutcome ==
    /\ [](lastOutcome # "none" => (lastCheckOK <=> lastOutcome = "ok"))
    /\ [][(pc = "update" /\ pc' = "wait") =>
            /\ lastCheckOK' = ~err
            /\ lastOutcome' = IF err THEN "fail" ELSE "ok"
            /\ exitCode' = -1
            /\ (~err /\ healthy) => healthzStatus' = StatusOK]_vars
    /\ [][(lastOutcome # "none" /\ lastCheckOK' # lastCheckOK) => (pc = "update" /\ pc' = "wait")]_vars

\* C21 witness: a cycle has succeeded, the flag is true and a probe was
\* answered 200 while a later cycle is in progress
C21_Witness ==
    /\ lastOutcome = "ok" /\ lastCheckOK /\ pc = "fetch" /\ exitCode = -1
    /\ resp = [path |-> "/healthz", status |-> StatusOK]

\* C22 as stated: whenever a probe has been answered healthy is true, and the
\* answer of /healthz is 200 exactly when lastCheckOK is true.
C22_Original ==
    resp # NoResp =>
        /\ healthy
        /\ resp.path = "/healthz" => (resp.status = StatusOK <=> lastCheckOK)

\* C22 amended: a probe answered while the listener is up finds healthy true,
\* and the answer of /healthz then follows lastCheckOK alone; healthy is false
\* only after the listener has failed, and a probe answered then, on a
\* connection accepted before the failure, gets 503 from /healthz whatever
\* lastCheckOK is.
C22_HealthyWhileListening ==
    /\ srv \in {"none", "starting", "listening", "stopped"} => healthy
    /\ ~healthy => srv = "failed"
    /\ (resp # NoResp /\ srv = "listening") =>
          /\ healthy
          /\ resp.path = "/healthz" => (resp.status = StatusOK <=> lastCheckOK)
    /\ (resp # NoResp /\ ~healthy) =>
          /\ conn
          /\ resp.path = "/healthz" => resp.status = StatusServiceUnavailable

\* C22 witness: after the listener has failed /healthz answered 503 on an open
\* connection although the last cycle succeeded
C22_Witness ==
    /\ resp = [path |-> "/healthz", status |-> StatusServiceUnavailable]
    /\ ~healthy /\ conn /\ srv = "failed" /\ lastCheckOK /\ lastOutcome = "ok"

\* C23: a step of the started responder, its failure included, leaves the loop and
\* the remote list as they are; with healthy false the process is still in
\* its loop, and from every state in which healthy is false (it stays false)
\* a new cycle starts later on, so cycles go on for ever.
C23_ResponderFailureLoopGoesOn ==
    /\ [](~healthy => (srv = "failed" /\ InLoop /\ exitCode = -1))
    /\ [][(srv # "none" /\ (srv' # srv \/ healthy' # healthy \/ conn' # conn)) =>
            UNCHANGED <<pc, exitCode, tickPending, rules, updatedRules, err, remote,
                        lastCheckOK, lastOutcome, fetches, writes>>]_vars
    /\ (~healthy ~> (pc = "fetch" /\ fetches = 0))

\* C23 witness: with the responder failed, a cycle of the loop has fetched a
\* list that needs the target moved and is about to write
C23_Witness ==
    /\ srv = "failed" /\ ~healthy /\ exitCode = -1
    /\ pc = "write" /\ lastOutcome # "none"
    /\ updatedRules.elems # <<>> /\ Last(updatedRules.elems) = config.TargetRule

\* a step in which the other writer changes the remote list
OtherWriterStep == remote' # remote /\ pc' = pc

\* a step in which a fetch or a write of the sidecar fails
FailedCallStep == err' /\ ~err

\* a step in which the sidecar sends a write
WriteStep == writes' = writes + 1

TargetIsLast == remote # <<>> /\ Last(remote) = config.TargetRule

====
